---- MODULE Spec2Model ----
(***************************************************************************)
(* Matchmaking and session relay of the crossup server (src/main.go).      *)
(*                                                                         *)
(* Every accepted connection runs wsHandler in a task of its own.  The     *)
(* handler either stores its player in the process-wide waiting slot and   *)
(* stays in the wait-loop, or takes the stored player as Player1, itself   *)
(* as Player2, loads a puzzle, sends game_start to both and runs one pump  *)
(* per side.  A session is named by the connection of its Player2, the     *)
(* handler that created it.                                                *)
(***************************************************************************)
EXTENDS Naturals, Sequences, FiniteSets

(* ----------------------------- bounds ---------------------------------- *)

\* connections accepted during a run, numbered in order of arrival
NConn == 4

\* messages the clients send during a run, all connections together
MaxMsgs == 2

Conns == 1..NConn

\* the nil *Player / nil *websocket.Conn
NoConn == 0

(* ------------------------- JSON values --------------------------------- *)

\* A JSON object is a set of <<field, kind, text>> members; kind is "str" for
\* a JSON string and "num" for a JSON number.
Has(obj, f) == \E p \in obj : p[1] = f

Member(obj, f) == CHOOSE p \in obj : p[1] = f

\* The data part of an envelope: absent (no "data" member) or a JSON object.
AbsentData == [shape |-> "absent", obj |-> {}]

ObjectData(o) == [shape |-> "object", obj |-> o]

\* json.Unmarshal(message.Data, &data) for a struct whose fields `fields` are
\* all Go strings: fails on absent data and on a member of the wrong JSON
\* kind; a missing member leaves the zero value ""; members the struct does
\* not name are skipped.
UnmarshalStruct(data, fields) ==
    IF data.shape # "object"
    THEN [ok |-> FALSE, val |-> [f \in fields |-> ""]]
    ELSE IF \E f \in fields : Has(data.obj, f) /\ Member(data.obj, f)[2] # "str"
    THEN [ok |-> FALSE, val |-> [f \in fields |-> ""]]
    ELSE [ok |-> TRUE,
          val |-> [f \in fields |->
                     IF Has(data.obj, f) THEN Member(data.obj, f)[3] ELSE ""]]

\* json.Marshal of such a struct: one string member per field.
MarshalStruct(val) == {<<f, "str", val[f]>> : f \in DOMAIN val}

(* --------------------------- messages ---------------------------------- *)

\* A frame a client sends.  wf: the frame unmarshals into Message (a JSON
\* object whose "type" is a string).
Envelope(t, d) == [wf |-> TRUE, type |-> t, data |-> d]

Garbage == [wf |-> FALSE, type |-> "", data |-> AbsentData]

\* no frame in flight
NoMsg == [wf |-> FALSE, type |-> "<none>", data |-> AbsentData]

\* the peer has closed its end with a close frame (ws.close()): the close
\* frame is what comes next
Eof == [wf |-> FALSE, type |-> "<eof>", data |-> AbsentData]

\* the peer has gone without a close frame (process killed, network drop):
\* the end of the byte stream or a reset is what comes next
Fin == [wf |-> FALSE, type |-> "<fin>", data |-> AbsentData]

\* the stream has been broken by two readers racing on it
Broken == [wf |-> FALSE, type |-> "<broken>", data |-> AbsentData]

\* the close frame of the peer, and after it the loss of its socket
EofFin == [wf |-> FALSE, type |-> "<eof,fin>", data |-> AbsentData]

\* what a read fails on
Ends == {Eof, Fin, Broken}

BoardObjects ==
    { {<<"cell", "str", "1A1">>, <<"letter", "str", "C">>},
      {<<"cell", "str", "2D3">>, <<"letter", "str", "A">>},
      {<<"cell", "str", "1A1">>, <<"letter", "str", "C">>, <<"hint", "str", "x">>},
      {<<"cell", "str", "1A1">>},
      {<<"cell", "str", "1A1">>, <<"letter", "num", "7">>} }

Msgs ==
    { Envelope("board_update", ObjectData(o)) : o \in BoardObjects }
    \cup { Envelope("heartbeat", AbsentData),
           Envelope("game_over", ObjectData({<<"winner", "str", "player1">>})),
           Envelope("game_over", ObjectData({<<"winner", "num", "1">>})),
           Envelope("foo", ObjectData({<<"cell", "str", "1A1">>, <<"letter", "str", "C">>})),
           Garbage }

(* ----------------------------- puzzles --------------------------------- *)

\* maps are sets of <<key, value>> pairs
dummyPuzzle ==
    [Grid |-> "dummy grid layout",
     Clues |-> {<<"7-Across", "Example clue for 7-Across">>,
                <<"7-Down", "Example clue for 7-Down">>},
     Answers |-> {<<"7-Across", "EXAMPLE">>, <<"7-Down", "EXAMPLE">>}]

\* the record LoadPuzzle(db, 1) returns when the database answers
StoredPuzzle ==
    [Grid |-> "stored grid",
     Clues |-> {<<"1-Across", "stored clue">>},
     Answers |-> {<<"1-Across", "STORED">>}]

\* outcomes of ConnectDB followed by LoadPuzzle
LookupResults == {"connect_error", "load_error", "loaded"}

\* values time.Now() may return to the handler of connection c: each handler
\* reads the clock once, and no two handlers are given the same reading
Times(c) == {10 * c}

(* --------------------------- game state -------------------------------- *)

\* the nil *GameState
NilState == [nil |-> TRUE]

\* make(map[string]string)
EmptyMap == {}

\* m[k] = v on a Go map
MapSet(m, k, v) == {p \in m : p[1] # k} \cup {<<k, v>>}

VARIABLES
    pc,             \* position of the wsHandler task of each connection
    waitingPlayer,  \* the waiting slot: a connection or NoConn
    waitingMutex,   \* the task holding waitingMutex, or NoConn
    opponent,       \* local `opponent` (match.Player1) of each pairing handler
    gameState,      \* the GameState each pairing handler created, or NilState
    pump,           \* position of the two pumps of each session
    pending,        \* per pump: the envelope handleMessage is about to send
    inbox,          \* per connection: what the client has in flight: a
                    \* frame, an end of the stream (Eof, Fin, Broken) or
                    \* nothing
    out,            \* per connection: the WriteMessage calls made on it
    nsent,          \* frames sent by clients so far
    lookup,         \* per pairing handler: how its puzzle lookup ended
    toRelay,        \* per connection: the frame in flight was sent while the
                    \* pump of its side was already reading
    addr,           \* per connection: its RemoteAddr, set when it arrives
    trailing        \* per connection: what the client has done after what
                    \* is in flight: closed (Eof), gone without a close
                    \* frame (Fin), closed and then gone (EofFin), or NoMsg

vars == <<pc, waitingPlayer, waitingMutex, opponent, gameState, pump, pending,
          inbox, out, nsent, lookup, toRelay, addr, trailing>>

Sides == {1, 2}

\* nothing to send
NoFwd == [type |-> "<none>", data |-> {}]

\* Player.ID: the RemoteAddr of the connection (line 171)
ID(c) == addr[c]

\* conn.Close() runs when the handler of the connection returns.
Closed(c) == pc[c] = "done"

\* conn.ReadMessage() returns an error: the connection was closed here, or
\* the peer is gone and everything it sent has been read.
ReadFails(c) == Closed(c) \/ inbox[c] \in Ends

\* conn.ReadMessage() returns a frame
ReadReady(c) == ~Closed(c) /\ inbox[c] \notin {NoMsg} \cup Ends

\* match.Player1.Conn / match.Player2.Conn of the session created by s
SideConn(s, side) == IF side = 1 THEN opponent[s] ELSE s

OtherSide(side) == 3 - side

\* variant: the pump passes the connection of its own side
OpponentConnOwn(s, side) == SideConn(s, side)

\* the opponentConn the pump of `side` passes to handleMessage (lines 268, 281)
OpponentConn(s, side) == SideConn(s, OtherSide(side))

PlayerName(side) == IF side = 1 THEN "player1" ELSE "player2"

Init ==
    /\ pc = [c \in Conns |-> "idle"]
    /\ waitingPlayer = NoConn
    /\ waitingMutex = NoConn
    /\ opponent = [c \in Conns |-> NoConn]
    /\ gameState = [c \in Conns |-> NilState]
    /\ pump = [c \in Conns |-> [s \in Sides |-> "off"]]
    /\ pending = [c \in Conns |-> [s \in Sides |-> NoFwd]]
    /\ inbox = [c \in Conns |-> NoMsg]
    /\ out = [c \in Conns |-> <<>>]
    /\ nsent = 0
    /\ lookup = [c \in Conns |-> "none"]
    /\ toRelay = [c \in Conns |-> FALSE]
    /\ addr = [c \in Conns |-> NoConn]
    /\ trailing = [c \in Conns |-> NoMsg]

(* ------------------------- message dispatcher -------------------------- *)

\* sendMessage's envelope for messageType and the marshalled data
Outgoing(messageType, data) == [type |-> messageType, data |-> data]

\* variant: the grid is not written by the time the update is sent on
ApplyBoardUpdateDeferred(gs, playerID, val) == gs

\* variant: the update lands in the grid of the other side
ApplyBoardUpdateSwapped(gs, playerID, val) ==
    IF gs = NilState THEN gs
    ELSE IF playerID = "player1"
    THEN [gs EXCEPT !.Player2State = MapSet(@, val["cell"], val["letter"])]
    ELSE IF playerID = "player2"
    THEN [gs EXCEPT !.Player1State = MapSet(@, val["cell"], val["letter"])]
    ELSE gs

\* case "board_update", lines 62-70: the grid of the sending side
ApplyBoardUpdate(gs, playerID, val) ==
    IF gs = NilState THEN gs
    ELSE IF playerID = "player1"
    THEN [gs EXCEPT !.Player1State = MapSet(@, val["cell"], val["letter"])]
    ELSE IF playerID = "player2"
    THEN [gs EXCEPT !.Player2State = MapSet(@, val["cell"], val["letter"])]
    ELSE gs

\* variant: game_over toggles the flag
ApplyGameOverToggle(gs) ==
    IF gs = NilState THEN gs ELSE [gs EXCEPT !.IsFinished = ~@]

\* case "game_over", lines 87-89
ApplyGameOver(gs) ==
    IF gs = NilState THEN gs ELSE [gs EXCEPT !.IsFinished = TRUE]

\* variant: no nil check, sendMessage is called whatever opponentConn is
BroadcastUnchecked(opponentConn, messageType, val) ==
    Outgoing(messageType, MarshalStruct(val))

\* lines 71-76 and 91-96: the envelope for the opponent, if there is one
Broadcast(opponentConn, messageType, val) ==
    IF opponentConn # NoConn THEN Outgoing(messageType, MarshalStruct(val)) ELSE NoFwd

\* variant: the board_update case is also the default
SwitchCaseLoose(type) ==
    IF type \in {"heartbeat", "game_over"} THEN type ELSE "board_update"

\* switch message.Type, lines 52-99: the case that runs
SwitchCase(type) ==
    IF type \in {"board_update", "heartbeat", "game_over"} THEN type ELSE "default"

\* handleMessage(msg, gameState, playerID, opponentConn): the game state it
\* leaves and the envelope it sends to opponentConn (NoFwd: none).
handleMessage(msg, gs, playerID, opponentConn) ==
    IF ~msg.wf THEN [gs |-> gs, fwd |-> NoFwd]
    ELSE IF SwitchCase(msg.type) = "board_update"
    THEN LET d == UnmarshalStruct(msg.data, {"cell", "letter"})
         IN  IF ~d.ok THEN [gs |-> gs, fwd |-> NoFwd]
             ELSE [gs |-> ApplyBoardUpdate(gs, playerID, d.val),
                   fwd |-> Broadcast(opponentConn, "board_update", d.val)]
    ELSE IF SwitchCase(msg.type) = "heartbeat"
    THEN [gs |-> gs, fwd |-> NoFwd]
    ELSE IF SwitchCase(msg.type) = "game_over"
    THEN LET d == UnmarshalStruct(msg.data, {"winner"})
         IN  IF ~d.ok THEN [gs |-> gs, fwd |-> NoFwd]
             ELSE [gs |-> ApplyGameOver(gs),
                   fwd |-> Broadcast(opponentConn, "game_over", d.val)]
    ELSE [gs |-> gs, fwd |-> NoFwd]

\* A reader of connection c has been returned the end of its stream: the
\* wait-loop of c is past its failed read, or the pump of the side of c has
\* ended.
EndRead(c) ==
    \/ pc[c] \in {"waitLock", "waitClean", "waitReturn"}
    \/ \E s \in Conns, side \in Sides :
          SideConn(s, side) = c /\ pump[s][side] = "done"

\* The peer's close frame has been read: the connection has answered with
\* its own close frame, after which every write on it fails (close sent).
CloseRead(c) == inbox[c] = Eof /\ EndRead(c)

\* The socket of the client of c is gone, whether or not the client had sent
\* a close frame before and whatever of its stream is still unread.
Lost(c) == inbox[c] = Fin \/ trailing[c] \in {Fin, EofFin}

\* What conn.WriteMessage on connection c can return (TRUE: no error).  It
\* fails once the connection has been closed here or the peer's close frame
\* has been read.  Once the peer's socket is gone, or the stream is broken,
\* the connection has no write error of its own and the write succeeds or
\* fails as the socket decides, whether or not a reader has been returned
\* the end.  It succeeds otherwise: an unread close frame of a peer that is
\* still there leaves the connection as it was.
WriteOutcomes(c) ==
    IF Closed(c) \/ CloseRead(c) THEN {FALSE}
    ELSE IF inbox[c] = Broken \/ Lost(c) THEN {TRUE, FALSE}
    ELSE {TRUE}

\* conn.WriteMessage on connection c: the call is recorded with its outcome.
WriteMessage(c, env, ok) ==
    [out EXCEPT ![c] = Append(@, [type |-> env.type, data |-> env.data,
                                  ok |-> ok])]

(* ----------------------------- clients --------------------------------- *)

\* The connection is established: its handler has started and not returned.
Open(c) == pc[c] \notin {"idle", "done"}

\* The pump of the side of c has been started.
Relayed(c) ==
    \E s \in Conns, side \in Sides :
        SideConn(s, side) = c /\ pump[s][side] # "off"

\* The client of c sends one frame.
ClientSend(c, m) ==
    /\ Open(c)
    /\ inbox[c] = NoMsg
    /\ nsent < MaxMsgs
    /\ inbox' = [inbox EXCEPT ![c] = m]
    /\ nsent' = nsent + 1
    /\ toRelay' = [toRelay EXCEPT ![c] = Relayed(c)]
    /\ UNCHANGED <<pc, waitingPlayer, waitingMutex, opponent, gameState, pump,
                   pending, out, lookup>>
    /\ UNCHANGED <<addr, trailing>>

\* The client of c is gone: it has closed its end, with or without a close
\* frame, whatever the server has read of what it sent.
Departed(c) == inbox[c] \in {Eof, Fin} \/ trailing[c] # NoMsg

\* The client of c closes the connection (ws.close()).  The close frame
\* follows what the client has sent; on a broken stream no reader will see
\* it.
ClientDisconnect(c) ==
    /\ Open(c)
    /\ ~Departed(c)
    /\ IF inbox[c] = NoMsg
       THEN inbox' = [inbox EXCEPT ![c] = Eof] /\ trailing' = trailing
       ELSE trailing' = [trailing EXCEPT ![c] = Eof] /\ inbox' = inbox
    /\ UNCHANGED <<pc, waitingPlayer, waitingMutex, opponent, gameState, pump,
                   pending, out, nsent, lookup, toRelay, addr>>

\* The socket of the client of c goes away without a close frame (process
\* killed, tab closed, network drop), before or after the client has closed
\* the connection.  What the client has sent, a frame or its close frame,
\* stays readable; the end of the stream follows it.
ClientAbort(c) ==
    /\ Open(c)
    /\ ~Lost(c)
    /\ IF inbox[c] = NoMsg
       THEN inbox' = [inbox EXCEPT ![c] = Fin] /\ trailing' = trailing
       ELSE /\ trailing' = [trailing EXCEPT ![c] =
                               IF inbox[c] # Eof /\ trailing[c] = Eof
                               THEN EofFin ELSE Fin]
            /\ inbox' = inbox
    /\ UNCHANGED <<pc, waitingPlayer, waitingMutex, opponent, gameState, pump,
                   pending, out, nsent, lookup, toRelay, addr>>

\* The addresses the connection c can arrive with: one no connection has
\* had, or that of an earlier connection whose handler has not returned.
\* RemoteAddr is the ip:port of the peer alone: it is free again as soon as
\* a client is gone, and on a listener bound to every address of the server
\* (line 298) two connections that are both alive can have it.  (The
\* address of a connection whose handler has returned is compared with
\* nothing any more: it is as good as new.)
RemoteAddrs(c) == {c} \cup {addr[d] : d \in {x \in Conns : Open(x)}}

\* What a read of the frame in flight leaves in flight, and what follows it
Following(c) == IF trailing[c] = EofFin THEN Eof ELSE trailing[c]

Rest(c) == IF trailing[c] = EofFin THEN Fin ELSE NoMsg

(* ------------------------- wsHandler: matchmaking ---------------------- *)

\* variant: Lock never waits
CanLockAlways == TRUE

\* Mutex.Lock returns only when no task holds the mutex.
CanLock == waitingMutex = NoConn

\* lines 162-175: the connection is upgraded, its Player created and the
\* handler enters the critical section.  Connections are numbered in the
\* order in which their handlers first take the mutex; a is the RemoteAddr
\* of the connection.
LockFrom(c, a) ==
    /\ pc[c] = "idle"
    /\ IF c = 1 THEN TRUE ELSE pc[c - 1] # "idle"
    /\ CanLock
    /\ waitingMutex' = c
    /\ pc' = [pc EXCEPT ![c] = "check"]
    /\ addr' = [addr EXCEPT ![c] = a]
    /\ UNCHANGED <<waitingPlayer, opponent, gameState, pump, pending, inbox,
                   out, nsent, lookup, toRelay, trailing>>

Lock(c) == \E a \in RemoteAddrs(c) : LockFrom(c, a)

\* line 176
CheckSlot(c) ==
    /\ pc[c] = "check"
    /\ pc' = [pc EXCEPT ![c] = IF waitingPlayer = NoConn THEN "store" ELSE "take"]
    /\ UNCHANGED <<waitingPlayer, waitingMutex, opponent, gameState, pump,
                   pending, inbox, out, nsent, lookup, toRelay>>
    /\ UNCHANGED <<addr, trailing>>

\* variant: line 178 is missing, the wait-loop runs with the mutex held
StoreWaitingLocked(c) ==
    /\ pc[c] = "store"
    /\ waitingPlayer' = c
    /\ pc' = [pc EXCEPT ![c] = "waitRead"]
    /\ UNCHANGED <<waitingMutex, opponent, gameState, pump, pending, inbox,
                   out, nsent, lookup, toRelay>>
    /\ UNCHANGED <<addr, trailing>>

\* lines 177-178
StoreWaiting(c) ==
    /\ pc[c] = "store"
    /\ waitingPlayer' = c
    /\ waitingMutex' = NoConn
    /\ pc' = [pc EXCEPT ![c] = "waitRead"]
    /\ UNCHANGED <<opponent, gameState, pump, pending, inbox, out, nsent,
                   lookup, toRelay>>
    /\ UNCHANGED <<addr, trailing>>

\* variant: line 198 is missing, the slot keeps the taken player
PairingKeepsSlot(slot) == [opponent |-> slot, slot |-> slot]

\* lines 197-198: the opponent taken from the slot, and the slot left behind
Pairing(slot) == [opponent |-> slot, slot |-> NoConn]

\* lines 197-204
TakeOpponent(c) ==
    /\ pc[c] = "take"
    /\ opponent' = [opponent EXCEPT ![c] = Pairing(waitingPlayer).opponent]
    /\ waitingPlayer' = Pairing(waitingPlayer).slot
    /\ waitingMutex' = NoConn
    /\ pc' = [pc EXCEPT ![c] = "load"]
    /\ UNCHANGED <<gameState, pump, pending, inbox, out, nsent, lookup,
                   toRelay>>
    /\ UNCHANGED <<addr, trailing>>

(* ------------------------- wsHandler: wait-loop ------------------------ *)

\* lines 182 and 193: a frame is read and handled with a nil game state and a
\* nil opponent connection.  A write through either nil pointer would panic:
\* the handler then ends without the cleanup of the slot.
WaitRead(c) ==
    /\ pc[c] = "waitRead"
    /\ ReadReady(c)
    /\ LET r == handleMessage(inbox[c], NilState, "waiting", NoConn)
       IN  pc' = [pc EXCEPT ![c] = IF r.gs = NilState /\ r.fwd = NoFwd
                                    THEN "waitRead" ELSE "done"]
    /\ inbox' = [inbox EXCEPT ![c] = Following(c)]
    /\ toRelay' = [toRelay EXCEPT ![c] = FALSE]
    /\ UNCHANGED <<waitingPlayer, waitingMutex, opponent, gameState, pump,
                   pending, out, nsent, lookup>>
    /\ trailing' = [trailing EXCEPT ![c] = Rest(c)]
    /\ UNCHANGED addr

\* lines 183-184
WaitReadErr(c) ==
    /\ pc[c] = "waitRead"
    /\ ReadFails(c)
    /\ pc' = [pc EXCEPT ![c] = "waitLock"]
    /\ UNCHANGED <<waitingPlayer, waitingMutex, opponent, gameState, pump,
                   pending, inbox, out, nsent, lookup, toRelay>>
    /\ UNCHANGED <<addr, trailing>>

\* line 185
WaitLock(c) ==
    /\ pc[c] = "waitLock"
    /\ CanLock
    /\ waitingMutex' = c
    /\ pc' = [pc EXCEPT ![c] = "waitClean"]
    /\ UNCHANGED <<waitingPlayer, opponent, gameState, pump, pending, inbox,
                   out, nsent, lookup, toRelay>>
    /\ UNCHANGED <<addr, trailing>>

\* lines 186-188: the slot after the cleanup of player c
Cleanup(slot, c) ==
    IF slot # NoConn /\ ID(slot) = ID(c) THEN NoConn ELSE slot

\* lines 186-189: the cleanup and the release of the mutex
WaitClean(c) ==
    /\ pc[c] = "waitClean"
    /\ waitingPlayer' = Cleanup(waitingPlayer, c)
    /\ waitingMutex' = NoConn
    /\ pc' = [pc EXCEPT ![c] = "waitReturn"]
    /\ UNCHANGED <<opponent, gameState, pump, pending, inbox, out, nsent,
                   lookup, toRelay>>
    /\ UNCHANGED <<addr, trailing>>

\* line 190: the handler returns and the deferred conn.Close() of line 167
\* runs
WaitReturn(c) ==
    /\ pc[c] = "waitReturn"
    /\ pc' = [pc EXCEPT ![c] = "done"]
    /\ UNCHANGED <<waitingPlayer, waitingMutex, opponent, gameState, pump,
                   pending, inbox, out, nsent, lookup, toRelay>>
    /\ UNCHANGED <<addr, trailing>>

(* ------------------------- wsHandler: session -------------------------- *)

\* lines 212-225: the puzzle the lookup leaves in loadedPuzzle
LoadedPuzzle(result) == IF result = "loaded" THEN StoredPuzzle ELSE dummyPuzzle

\* lines 230-236
NewGameState(puzzle, now) ==
    [Puzzle |-> puzzle, Player1State |-> EmptyMap, Player2State |-> EmptyMap,
     StartTime |-> now, IsFinished |-> FALSE]

\* lines 239-245, as sendMessage wraps it
StartEnvelope(gs) ==
    Outgoing("game_start", [puzzle |-> gs.Puzzle, start_time |-> gs.StartTime])

\* lines 210-236: the lookup and the fresh game state
LoadPuzzle(c) ==
    /\ pc[c] = "load"
    /\ \E result \in LookupResults, now \in Times(c) :
          /\ lookup' = [lookup EXCEPT ![c] = result]
          /\ gameState' = [gameState EXCEPT
                             ![c] = NewGameState(LoadedPuzzle(result), now)]
    /\ pc' = [pc EXCEPT ![c] = "start1"]
    /\ UNCHANGED <<waitingPlayer, waitingMutex, opponent, pump, pending,
                   inbox, out, nsent, toRelay>>
    /\ UNCHANGED <<addr, trailing>>

\* lines 248-250
SendStart1(c) ==
    /\ pc[c] = "start1"
    /\ \E ok \in WriteOutcomes(SideConn(c, 1)) :
          out' = WriteMessage(SideConn(c, 1), StartEnvelope(gameState[c]), ok)
    /\ pc' = [pc EXCEPT ![c] = "start2"]
    /\ UNCHANGED <<waitingPlayer, waitingMutex, opponent, gameState, pump,
                   pending, inbox, nsent, lookup, toRelay>>
    /\ UNCHANGED <<addr, trailing>>

\* lines 251-253
SendStart2(c) ==
    /\ pc[c] = "start2"
    /\ \E ok \in WriteOutcomes(SideConn(c, 2)) :
          out' = WriteMessage(SideConn(c, 2), StartEnvelope(gameState[c]), ok)
    /\ pc' = [pc EXCEPT ![c] = "spawn"]
    /\ UNCHANGED <<waitingPlayer, waitingMutex, opponent, gameState, pump,
                   pending, inbox, nsent, lookup, toRelay>>
    /\ UNCHANGED <<addr, trailing>>

\* lines 256-283: both pumps are started
StartPumps(c) ==
    /\ pc[c] = "spawn"
    /\ pump' = [pump EXCEPT ![c] = [s \in Sides |-> "read"]]
    /\ pc' = [pc EXCEPT ![c] = "join"]
    /\ UNCHANGED <<waitingPlayer, waitingMutex, opponent, gameState, pending,
                   inbox, out, nsent, lookup, toRelay>>
    /\ UNCHANGED <<addr, trailing>>

\* lines 262/268 and 275/281: the pump of one side reads a frame and
\* handleMessage runs up to its write to the opponent
PumpRead(s, side) ==
    /\ pump[s][side] = "read"
    /\ ReadReady(SideConn(s, side))
    /\ LET r == handleMessage(inbox[SideConn(s, side)], gameState[s],
                              PlayerName(side), OpponentConn(s, side))
       IN  /\ gameState' = [gameState EXCEPT ![s] = r.gs]
           /\ pending' = [pending EXCEPT ![s][side] = r.fwd]
           /\ pump' = [pump EXCEPT ![s][side] =
                         IF r.fwd = NoFwd THEN "read" ELSE "send"]
    /\ inbox' = [inbox EXCEPT
                 ![SideConn(s, side)] = Following(SideConn(s, side))]
    /\ toRelay' = [toRelay EXCEPT ![SideConn(s, side)] = FALSE]
    /\ UNCHANGED <<pc, waitingPlayer, waitingMutex, opponent, out,
                   nsent, lookup>>
    /\ trailing' = [trailing EXCEPT ![SideConn(s, side)] =
                                      Rest(SideConn(s, side))]
    /\ UNCHANGED addr

\* lines 73 and 93: sendMessage to the opponent, then back to the read
PumpSend(s, side) ==
    /\ pump[s][side] = "send"
    /\ \E ok \in WriteOutcomes(OpponentConn(s, side)) :
          out' = WriteMessage(OpponentConn(s, side), pending[s][side], ok)
    /\ pending' = [pending EXCEPT ![s][side] = NoFwd]
    /\ pump' = [pump EXCEPT ![s][side] = "read"]
    /\ UNCHANGED <<pc, waitingPlayer, waitingMutex, opponent, gameState,
                   inbox, nsent, lookup, toRelay>>
    /\ UNCHANGED <<addr, trailing>>

\* variant: a failed read ends the sibling pump too
PumpReadErrBoth(s, side) ==
    /\ pump[s][side] = "read"
    /\ ReadFails(SideConn(s, side))
    /\ pump' = [pump EXCEPT ![s] = [x \in Sides |-> "done"]]
    /\ UNCHANGED <<pc, waitingPlayer, waitingMutex, opponent, gameState, pending,
                   inbox, out, nsent, lookup, toRelay>>
    /\ UNCHANGED <<addr, trailing>>

\* lines 263-266 and 276-279: a failed read ends the pump
PumpReadErr(s, side) ==
    /\ pump[s][side] = "read"
    /\ ReadFails(SideConn(s, side))
    /\ pump' = [pump EXCEPT ![s][side] = "done"]
    /\ UNCHANGED <<pc, waitingPlayer, waitingMutex, opponent, gameState, pending,
                   inbox, out, nsent, lookup, toRelay>>
    /\ UNCHANGED <<addr, trailing>>

\* variant: wg.Add(1), the wait is over when one pump has ended
PumpsDoneAny(s) == \E side \in Sides : pump[s][side] = "done"

\* wg.Wait() returns once both pumps have called wg.Done()
PumpsDone(s) == \A side \in Sides : pump[s][side] = "done"

\* lines 285-287, and the deferred conn.Close()
Join(c) ==
    /\ pc[c] = "join"
    /\ PumpsDone(c)
    /\ pc' = [pc EXCEPT ![c] = "done"]
    /\ UNCHANGED <<waitingPlayer, waitingMutex, opponent, gameState, pump,
                   pending, inbox, out, nsent, lookup, toRelay>>
    /\ UNCHANGED <<addr, trailing>>

\* The wait-loop of c and the Player1 pump of its session are both in
\* ReadMessage on the same connection.
RacingReaders(c) ==
    /\ pc[c] = "waitRead"
    /\ \E s \in Conns : opponent[s] = c /\ pump[s][1] = "read"

\* lines 182 and 262 on one connection: the two unsynchronised readers break
\* the frame between them; it is lost and the connection's reads fail from
\* then on.
RaceCorrupt(c) ==
    /\ RacingReaders(c)
    /\ ReadReady(c)
    /\ inbox' = [inbox EXCEPT ![c] = Broken]
    /\ toRelay' = [toRelay EXCEPT ![c] = FALSE]
    /\ UNCHANGED <<pc, waitingPlayer, waitingMutex, opponent, gameState, pump,
                   pending, out, nsent, lookup>>
    /\ UNCHANGED <<addr, trailing>>

Next ==
    \/ \E c \in Conns : Lock(c)
    \/ \E c \in Conns : CheckSlot(c)
    \/ \E c \in Conns : StoreWaiting(c)
    \/ \E c \in Conns : TakeOpponent(c)
    \/ \E c \in Conns : WaitRead(c)
    \/ \E c \in Conns : WaitReadErr(c)
    \/ \E c \in Conns : WaitLock(c)
    \/ \E c \in Conns : WaitClean(c)
    \/ \E c \in Conns : WaitReturn(c)
    \/ \E c \in Conns : LoadPuzzle(c)
    \/ \E c \in Conns : SendStart1(c)
    \/ \E c \in Conns : SendStart2(c)
    \/ \E c \in Conns : StartPumps(c)
    \/ \E s \in Conns, side \in Sides : PumpRead(s, side)
    \/ \E s \in Conns, side \in Sides : PumpSend(s, side)
    \/ \E s \in Conns, side \in Sides : PumpReadErr(s, side)
    \/ \E c \in Conns : Join(c)
    \/ \E c \in Conns, m \in Msgs : ClientSend(c, m)
    \/ \E c \in Conns : ClientDisconnect(c)
    \/ \E c \in Conns : ClientAbort(c)
    \/ \E c \in Conns : RaceCorrupt(c)

\* The whole server: up to NConn connections, whose clients send up to
\* MaxMsgs frames of any kind.
Spec == Init /\ [][Next]_vars

(* ---------------- matchmaking under keep-alive traffic ----------------- *)

Heartbeat == Envelope("heartbeat", AbsentData)

\* The client of c sends the keep-alive frame the wait-loop is there for.
ClientHeartbeat(c) ==
    /\ Open(c)
    /\ inbox[c] = NoMsg
    /\ inbox' = [inbox EXCEPT ![c] = Heartbeat]
    /\ toRelay' = [toRelay EXCEPT ![c] = Relayed(c)]
    /\ UNCHANGED <<pc, waitingPlayer, waitingMutex, opponent, gameState, pump,
                   pending, out, nsent, lookup>>
    /\ UNCHANGED <<addr, trailing>>

NextMatch ==
    \/ \E c \in Conns : Lock(c)
    \/ \E c \in Conns : CheckSlot(c)
    \/ \E c \in Conns : StoreWaiting(c)
    \/ \E c \in Conns : TakeOpponent(c)
    \/ \E c \in Conns : WaitRead(c)
    \/ \E c \in Conns : WaitReadErr(c)
    \/ \E c \in Conns : WaitLock(c)
    \/ \E c \in Conns : WaitClean(c)
    \/ \E c \in Conns : WaitReturn(c)
    \/ \E c \in Conns : ClientHeartbeat(c)
    \/ \E c \in Conns : ClientDisconnect(c)

\* Up to NConn connections, from new addresses or from addresses of clients
\* that are gone, whose clients send heartbeats, any number of them, and
\* leave: every interleaving of lines 175-199 of the handlers with the
\* wait-loops and their cleanups.  A handler that has formed a session is as
\* far as its puzzle lookup; what it does from there on is in Spec and in
\* the specifications of one session below.  (A client that leaves without
\* a close frame is to a wait-loop what one that leaves with it is: a read
\* that fails.  The two differ for the writes of a session.)
SpecMatch == Init /\ [][NextMatch]_vars

(* ----------------------- the relay of one session ---------------------- *)

\* Only the first two connections arrive, each from an address of its own:
\* with the slot empty from the pairing on, no cleanup meets another player
\* in it, whatever the addresses.
LockPair(c) == c \in {1, 2} /\ LockFrom(c, c)

NextRelay ==
    \/ \E c \in Conns : LockPair(c)
    \/ \E c \in Conns : CheckSlot(c)
    \/ \E c \in Conns : StoreWaiting(c)
    \/ \E c \in Conns : TakeOpponent(c)
    \/ \E c \in Conns : WaitRead(c)
    \/ \E c \in Conns : WaitReadErr(c)
    \/ \E c \in Conns : WaitLock(c)
    \/ \E c \in Conns : WaitClean(c)
    \/ \E c \in Conns : WaitReturn(c)
    \/ \E c \in Conns : LoadPuzzle(c)
    \/ \E c \in Conns : SendStart1(c)
    \/ \E c \in Conns : SendStart2(c)
    \/ \E c \in Conns : StartPumps(c)
    \/ \E s \in Conns, side \in Sides : PumpRead(s, side)
    \/ \E s \in Conns, side \in Sides : PumpSend(s, side)
    \/ \E s \in Conns, side \in Sides : PumpReadErr(s, side)
    \/ \E c \in Conns : Join(c)
    \/ \E c \in Conns, m \in Msgs : ClientSend(c, m)
    \/ \E c \in Conns : ClientDisconnect(c)
    \/ \E c \in Conns : RaceCorrupt(c)

\* Two connections, whose clients send up to MaxMsgs frames of any kind: one
\* session at most, with longer exchanges than Spec affords.
SpecRelay == Init /\ [][NextRelay]_vars

(* --------------- the relay when a side drops in either way ------------- *)

\* frames that make a pump write, and one that does not
LiveMsgs ==
    { Envelope("board_update",
               ObjectData({<<"cell", "str", "1A1">>, <<"letter", "str", "C">>})),
      Envelope("game_over", ObjectData({<<"winner", "str", "player1">>})),
      Heartbeat }

NextDrop ==
    \/ \E c \in Conns : LockPair(c)
    \/ \E c \in Conns : CheckSlot(c)
    \/ \E c \in Conns : StoreWaiting(c)
    \/ \E c \in Conns : TakeOpponent(c)
    \/ \E c \in Conns : WaitRead(c)
    \/ \E c \in Conns : WaitReadErr(c)
    \/ \E c \in Conns : WaitLock(c)
    \/ \E c \in Conns : WaitClean(c)
    \/ \E c \in Conns : WaitReturn(c)
    \/ \E c \in Conns : LoadPuzzle(c)
    \/ \E c \in Conns : SendStart1(c)
    \/ \E c \in Conns : SendStart2(c)
    \/ \E c \in Conns : StartPumps(c)
    \/ \E s \in Conns, side \in Sides : PumpRead(s, side)
    \/ \E s \in Conns, side \in Sides : PumpSend(s, side)
    \/ \E s \in Conns, side \in Sides : PumpReadErr(s, side)
    \/ \E c \in Conns : Join(c)
    \/ \E c \in Conns, m \in LiveMsgs : ClientSend(c, m)
    \/ \E c \in Conns : ClientDisconnect(c)
    \/ \E c \in Conns : ClientAbort(c)
    \/ \E c \in Conns : RaceCorrupt(c)

\* One session whose clients send the frames a pump forwards and leave with
\* or without a close frame.
SpecDrop == Init /\ [][NextDrop]_vars

(* ------------------- the relay under fair scheduling ------------------- *)

\* The Go scheduler runs every runnable goroutine: a pump whose write or
\* whose failed read can return does return, and wg.Wait() returns once both
\* pumps are done.  Clients are under no obligation to send or to leave.
Fairness ==
    /\ \A s \in Conns, side \in Sides : WF_vars(PumpSend(s, side))
    /\ \A s \in Conns, side \in Sides : WF_vars(PumpReadErr(s, side))
    /\ \A s \in Conns : WF_vars(Join(s))

NextLive ==
    \/ \E c \in Conns : LockPair(c)
    \/ \E c \in Conns : CheckSlot(c)
    \/ \E c \in Conns : StoreWaiting(c)
    \/ \E c \in Conns : TakeOpponent(c)
    \/ \E c \in Conns : WaitRead(c)
    \/ \E c \in Conns : WaitReadErr(c)
    \/ \E c \in Conns : WaitLock(c)
    \/ \E c \in Conns : WaitClean(c)
    \/ \E c \in Conns : WaitReturn(c)
    \/ \E c \in Conns : LoadPuzzle(c)
    \/ \E c \in Conns : SendStart1(c)
    \/ \E c \in Conns : SendStart2(c)
    \/ \E c \in Conns : StartPumps(c)
    \/ \E s \in Conns, side \in Sides : PumpRead(s, side)
    \/ \E s \in Conns, side \in Sides : PumpSend(s, side)
    \/ \E s \in Conns, side \in Sides : PumpReadErr(s, side)
    \/ \E c \in Conns : Join(c)
    \/ \E c \in Conns, m \in LiveMsgs : ClientSend(c, m)
    \/ \E c \in Conns : ClientDisconnect(c)
    \/ \E c \in Conns : RaceCorrupt(c)

\* One session under fair scheduling of its pumps and of its handler's wait.
SpecLive == Init /\ [][NextLive]_vars /\ Fairness

(* ============================ properties =============================== *)

\* The handler of c took the branch of line 176: it found the slot empty.
TookWaitBranch(c) ==
    \/ pc[c] \in {"store", "waitRead", "waitLock", "waitClean", "waitReturn"}
    \/ pc[c] = "done" /\ opponent[c] = NoConn

\* c is Player1 of some session
Paired(c) == \E s \in Conns : opponent[s] = c

\* The sessions formed so far
Sessions == {s \in Conns : opponent[s] # NoConn}

HasString(obj, f) == \E p \in obj : p[1] = f /\ p[2] = "str"

StringOf(obj, f) == (CHOOSE p \in obj : p[1] = f)[3]

\* a board_update whose data is an object with a string cell and a string letter
WellFormedBoard(m) ==
    /\ m.wf
    /\ m.type = "board_update"
    /\ m.data.shape = "object"
    /\ HasString(m.data.obj, "cell")
    /\ HasString(m.data.obj, "letter")

\* ... and nothing else
ExactBoard(m) == WellFormedBoard(m) /\ Cardinality(m.data.obj) = 2

\* a board_update whose data is not of that shape
MalformedBoard(m) == m.wf /\ m.type = "board_update" /\ ~WellFormedBoard(m)

\* a game_over whose data is an object with a string winner and nothing else
ExactGameOver(m) ==
    /\ m.wf
    /\ m.type = "game_over"
    /\ m.data.shape = "object"
    /\ HasString(m.data.obj, "winner")
    /\ Cardinality(m.data.obj) = 1

UnknownType(m) ==
    m.wf /\ m.type \notin {"board_update", "heartbeat", "game_over"}

\* the grid map of one side of session s
Grid(gs, side) == IF side = 1 THEN gs.Player1State ELSE gs.Player2State

\* In this step the pump of `side` of session s takes a frame that makes
\* handleMessage send: the only step that takes a pump from its read to its
\* write.
PumpTakes(s, side) == pump[s][side] = "read" /\ pump'[s][side] = "send"

\* In this step the pump of `side` of session s completes its write.
PumpWrites(s, side) == pump[s][side] = "send" /\ pump'[s][side] = "read"

\* the connection of the other side of session s, spelled out
Peer(s, side) == IF side = 1 THEN s ELSE opponent[s]

\* connection c has been written an envelope of this type and data
Written(c, type, data) ==
    \E i \in DOMAIN out[c] : out[c][i].type = type /\ out[c][i].data = data

(* ------------------------------- C1 ------------------------------------ *)

\* C1: a session always has the arrival just before its creator as Player1
\* and its creator as Player2, no other session has that Player1, and of two
\* successive arrivals that both found the slot empty the first had
\* disconnected: without a disconnect in between, A then B form the session
\* (A, B), and A is never paired with a later arrival.
C1_PairsInArrivalOrder ==
    \A b \in Conns :
        /\ opponent[b] # NoConn =>
              /\ opponent[b] = b - 1
              /\ \A c \in Conns \ {b} : opponent[c] # opponent[b]
        /\ (b > 1 /\ TookWaitBranch(b)) =>
              (TookWaitBranch(b - 1) => pc[b - 1] \in {"waitReturn", "done"})

(* ------------------------------- C2 ------------------------------------ *)

\* C2: every well-formed board_update {cell, letter} that Player1 sends once
\* the pumps of its session run is applied to the Player1 grid and is on its
\* way to Player2 as soon as the server has taken it off the connection,
\* whichever task did.
C2_EveryUpdateRelayed ==
    [][\A s \in Sessions :
          LET p1 == opponent[s]
              m == inbox[p1]
          IN  (toRelay[p1] /\ ExactBoard(m) /\ inbox'[p1] \in {Following(p1), Broken}) =>
                 /\ <<StringOf(m.data.obj, "cell"), StringOf(m.data.obj, "letter")>>
                       \in gameState'[s].Player1State
                 /\ pending'[s][1] =
                       [type |-> "board_update", data |-> m.data.obj]]_vars

(* ------------------------------- C3 ------------------------------------ *)

\* C3: handling a board_update whose payload is malformed, one without a
\* letter in particular, changes no grid and forwards nothing.
C3_MalformedDropped ==
    [][\A c \in Conns :
          (MalformedBoard(inbox[c]) /\ inbox'[c] = Following(c)) =>
              /\ gameState' = gameState
              /\ pending' = pending
              /\ out' = out]_vars

(* ------------------------------- C4 ------------------------------------ *)

\* C4: an arrival never finds in the slot a participant whose disconnect the
\* server has already seen: at the step in which a handler enters lines
\* 175-199, the slot is empty or holds a participant whose wait-loop is
\* still in its read.
C4_ArrivalFindsNoStaleWaiter ==
    [][\A b \in Conns :
          (pc[b] = "idle" /\ pc'[b] = "check") =>
              (waitingPlayer = NoConn \/ pc[waitingPlayer] = "waitRead")]_vars

(* ------------------------------- C5 ------------------------------------ *)

\* C5: when the pump of side X takes a well-formed board_update, the grid of
\* X maps cell to letter afterwards and is otherwise as before, and the grid
\* of the other side and the finished flag are unchanged.
C5_OwnGridOnly ==
    [][\A s \in Conns, side \in Sides :
          (PumpTakes(s, side) /\ WellFormedBoard(inbox[SideConn(s, side)])) =>
              LET o == inbox[SideConn(s, side)].data.obj
                  cell == StringOf(o, "cell")
                  letter == StringOf(o, "letter")
                  before == Grid(gameState[s], side)
                  after == Grid(gameState'[s], side)
              IN  /\ <<cell, letter>> \in after
                  /\ \A p \in after : p[1] = cell => p[2] = letter
                  /\ {p \in after : p[1] # cell} = {p \in before : p[1] # cell}
                  /\ Grid(gameState'[s], OtherSide(side))
                        = Grid(gameState[s], OtherSide(side))
                  /\ gameState'[s].IsFinished = gameState[s].IsFinished]_vars

\* Player2 has filled a cell while the Player1 grid already held an entry.
C5_Witness ==
    \E s \in Sessions :
        /\ gameState[s] # NilState
        /\ gameState[s].Player1State # {}
        /\ gameState[s].Player2State # {}

(* ------------------------------- C6 ------------------------------------ *)

\* C6: a board_update {cell, letter} taken by the pump of side X becomes one
\* pending envelope with the same payload and nothing is written yet; the
\* write that follows appends exactly that envelope to the connection of the
\* opponent of X in the same session and leaves every other connection as it
\* was, after which nothing is pending.
C6_OneForwardToOpponent ==
    [][\A s \in Conns, side \in Sides :
          /\ (PumpTakes(s, side) /\ ExactBoard(inbox[SideConn(s, side)])) =>
                /\ pending'[s][side] =
                      [type |-> "board_update",
                       data |-> inbox[SideConn(s, side)].data.obj]
                /\ out' = out
          /\ (PumpWrites(s, side) /\ pending[s][side].type = "board_update") =>
                LET to == Peer(s, side)
                    n == Len(out[to])
                IN  /\ Len(out'[to]) = n + 1
                    /\ SubSeq(out'[to], 1, n) = out[to]
                    /\ out'[to][n + 1].type = "board_update"
                    /\ out'[to][n + 1].data = pending[s][side].data
                    /\ \A c \in Conns \ {to} : out'[c] = out[c]
                    /\ pending'[s][side] = NoFwd]_vars

\* Each side of a session has been written the update of the other side.
C6_Witness ==
    \E s \in Sessions :
        /\ \E i \in DOMAIN out[s] : out[s][i].type = "board_update"
        /\ \E i \in DOMAIN out[opponent[s]] :
              out[opponent[s]][i].type = "board_update"

(* ------------------------------- C7 ------------------------------------ *)

\* C7: when the pump of either side takes a game_over, finished is true
\* afterwards and the game_over is pending for the opponent; finished, once
\* true, stays true in every step, whatever the order of the two pumps.
C7_FinishedSticks ==
    [][\A s \in Conns :
          /\ (gameState[s] # NilState /\ gameState[s].IsFinished) =>
                gameState'[s].IsFinished
          /\ \A side \in Sides :
                (PumpTakes(s, side) /\ ExactGameOver(inbox[SideConn(s, side)])) =>
                    /\ gameState'[s].IsFinished
                    /\ pending'[s][side] =
                          [type |-> "game_over",
                           data |-> inbox[SideConn(s, side)].data.obj]]_vars

\* Both sides have declared the game over and each has been written the
\* game_over of the other.
C7_Witness ==
    \E s \in Sessions :
        /\ gameState[s] # NilState
        /\ gameState[s].IsFinished
        /\ \E i \in DOMAIN out[s] : out[s][i].type = "game_over"
        /\ \E i \in DOMAIN out[opponent[s]] :
              out[opponent[s]][i].type = "game_over"

(* ------------------------------- C8 ------------------------------------ *)

LookupFailed(s) == lookup[s] \in {"connect_error", "load_error"}

\* the handler of s is past both writes of lines 248-253
StartSent(s) == pc[s] \in {"spawn", "join", "done"}

\* the data of the start envelope of session s with the fallback puzzle
FallbackStart(s) ==
    [puzzle |-> dummyPuzzle, start_time |-> gameState[s].StartTime]

\* C8, as stated: after a failed lookup both sides are written a
\* session_start envelope with the fallback puzzle and the start time.
C8_SessionStartSent ==
    \A s \in Sessions :
        (LookupFailed(s) /\ StartSent(s)) =>
            \A side \in Sides :
                Written(SideConn(s, side), "session_start", FallbackStart(s))

(* ------------------------------- C9 ------------------------------------ *)

\* C9: the step that handles an envelope of an unknown type changes no game
\* state, no pending or written envelope, and leaves every pump and every
\* handler where it was.
C9_UnknownIgnored ==
    [][\A c \in Conns :
          (UnknownType(inbox[c]) /\ inbox'[c] = Following(c)) =>
              /\ gameState' = gameState
              /\ pending' = pending
              /\ out' = out
              /\ pump' = pump
              /\ pc' = pc
              /\ waitingPlayer' = waitingPlayer]_vars

\* An envelope of an unknown type is what the Player2 pump of a session with
\* a filled grid reads next.
C9_Witness ==
    \E s \in Sessions :
        /\ pump[s][2] = "read"
        /\ UnknownType(inbox[s])
        /\ gameState[s].Player2State # {}

(* ------------------------------- C10 ----------------------------------- *)

C11_NoConcurrentReaders ==
    \A c \in Conns : ~RacingReaders(c)

(* ------------------------------- C12 ----------------------------------- *)

\* In this step the pump of `side` of session s ends.
PumpEnds(s, side) == pump[s][side] # "done" /\ pump'[s][side] = "done"

\* C12: a pump ends only in its read, and only when the read of its own
\* connection fails; the step leaves the sibling pump, the handler and the
\* game state as they were.  A pump whose sibling has ended still applies the
\* board_update it takes to the grid of its side.
C12_OnlyThatPumpEnds ==
    [][\A s \in Conns, side \in Sides :
          /\ PumpEnds(s, side) =>
                /\ pump[s][side] = "read"
                /\ ReadFails(SideConn(s, side))
                /\ pump'[s][OtherSide(side)] = pump[s][OtherSide(side)]
                /\ pc' = pc
                /\ gameState' = gameState
                /\ pending' = pending
          /\ (/\ pump[s][OtherSide(side)] = "done"
              /\ PumpTakes(s, side)
              /\ WellFormedBoard(inbox[SideConn(s, side)])) =>
                LET o == inbox[SideConn(s, side)].data.obj
                IN  <<StringOf(o, "cell"), StringOf(o, "letter")>>
                        \in Grid(gameState'[s], side)]_vars

\* Player1 has dropped, its connection is closed and its pump has ended;
\* Player2 then sent an update: it is in the Player2 grid and the write of it
\* to the closed connection of Player1 has failed.
C12_Witness ==
    \E s \in Sessions :
        /\ pump[s][1] = "done"
        /\ pump[s][2] = "read"
        /\ gameState[s].Player2State # {}
        /\ \E i \in DOMAIN out[opponent[s]] :
              /\ out[opponent[s]][i].type = "board_update"
              /\ ~out[opponent[s]][i].ok

(* ------------------------------- C13 ----------------------------------- *)

\* C13: the handler that created a session has returned only if both pumps
\* have ended, and once the reads of both sides fail it does return.
C13_JoinAfterBothPumps ==
    /\ [](\A s \in Conns :
            (pc[s] = "done" /\ opponent[s] # NoConn) =>
                \A side \in Sides : pump[s][side] = "done")
    /\ \A s \in Conns :
          (pc[s] = "join" /\ ReadFails(s) /\ ReadFails(opponent[s]))
              ~> (pc[s] = "done")

\* A session that relayed an update of Player1 is over: both pumps have
\* ended and its handler has returned.
C13_Witness ==
    \E s \in Sessions :
        /\ pc[s] = "done"
        /\ pump[s][1] = "done"
        /\ pump[s][2] = "done"
        /\ gameState[s].Player1State # {}

(* ------------------------------- C14 ----------------------------------- *)

\* C14: the cleanup step of the wait-loop of c clears the slot if the slot
\* holds c and leaves it as it is otherwise, empty or held by another.
C14_CleanupOwnSlotOnly ==
    [][\A c \in Conns :
          (pc[c] = "waitClean" /\ pc'[c] = "waitReturn") =>
              waitingPlayer' = IF waitingPlayer = c THEN NoConn
                               ELSE waitingPlayer]_vars

(* ------------------------------- C15 ----------------------------------- *)

\* positions of a handler between Lock and Unlock: lines 176-178, 197-199
\* and 186-189
CriticalSection == {"check", "store", "take", "waitClean"}

\* positions of a handler in or before a read, a write, the puzzle lookup,
\* the wait for the pumps or the close of its connection
BlockingIO ==
    {"waitRead", "load", "start1", "start2", "spawn", "join", "waitReturn"}

\* C15: the mutex is held only by a handler inside one of the three critical
\* sections, never by a handler that reads, writes, looks the puzzle up or
\* waits for its pumps; while a pump runs its handler does not hold it.
C15_NoLockAcrossIO ==
    \A c \in Conns :
        /\ waitingMutex = c => pc[c] \in CriticalSection
        /\ pc[c] \in BlockingIO => waitingMutex # c
        /\ (\E side \in Sides : pump[c][side] \in {"read", "send"}) =>
              waitingMutex # c

\* The handler of Player1 is inside the cleanup's critical section while the
\* handler of its session is at a start write.
C15_Witness ==
    \E a, c \in Conns :
        /\ waitingMutex = a
        /\ pc[a] = "waitClean"
        /\ opponent[c] = a
        /\ pc[c] \in {"start1", "start2"}

(* ------------------------------- C16 ----------------------------------- *)

\* C16: at the step in which the pump of side X writes a forwarded
\* board_update to the opponent, the grid of X already maps its cell to its
\* letter; at the step in which it writes a forwarded game_over, finished is
\* already true.
C16_MutationBeforeForward ==
    [][\A s \in Conns, side \in Sides :
          PumpWrites(s, side) =>
              /\ pending[s][side].type = "board_update" =>
                    <<StringOf(pending[s][side].data, "cell"),
                      StringOf(pending[s][side].data, "letter")>>
                        \in Grid(gameState[s], side)
              /\ pending[s][side].type = "game_over" =>
                    gameState[s].IsFinished]_vars

\* Player1 has been written the update of Player2, which is in the Player2
\* grid, and Player2 the game_over of Player1, with finished set.
C16_Witness ==
    \E s \in Sessions :
        /\ \E i \in DOMAIN out[opponent[s]] :
              /\ out[opponent[s]][i].type = "board_update"
              /\ <<StringOf(out[opponent[s]][i].data, "cell"),
                   StringOf(out[opponent[s]][i].data, "letter")>>
                     \in gameState[s].Player2State
        /\ \E i \in DOMAIN out[s] : out[s][i].type = "game_over"
        /\ gameState[s].IsFinished

(* ------------------------------- C17 ----------------------------------- *)

\* C17: the step in which the wait-loop of a participant that waits, not
\* taken into a session, handles a frame of any kind changes no game state,
\* no pending or written envelope, no pump and not the slot, and leaves the
\* wait-loop in its read.
C17_WaitLoopNoOp ==
    [][\A c \in Conns :
          (/\ pc[c] = "waitRead"
           /\ \A s \in Conns : opponent[s] # c
           /\ inbox[c] \notin {NoMsg} \cup Ends
           /\ inbox'[c] = Following(c)) =>
              /\ gameState' = gameState
              /\ pending' = pending
              /\ out' = out
              /\ pump' = pump
              /\ waitingPlayer' = waitingPlayer
              /\ waitingMutex' = waitingMutex
              /\ pc' = pc]_vars

\* The wait-loop of the only participant has handled a frame, is still in
\* its read with the participant in the slot, and a game_over is what it
\* reads next.
C17_Witness ==
    /\ pc[1] = "waitRead"
    /\ pc[2] = "idle"
    /\ waitingPlayer = 1
    /\ nsent >= 2
    /\ inbox[1].type = "game_over"
    /\ inbox[1].data.shape = "object"

(* ------------------------------- C18 ----------------------------------- *)

\* C18: an arrival that follows the creator of a session found the slot
\* empty: it is no creator of a session itself, it is in the slot for as
\* long as it waits, and the only handler that ever takes it is that of the
\* next arrival.
C18_ThirdArrivalWaits ==
    \A c \in Conns :
        (c > 2 /\ opponent[c - 1] # NoConn /\ pc[c] \notin {"idle", "check"}) =>
            /\ pc[c] \in {"store", "waitRead", "waitLock", "waitClean",
                        "waitReturn", "done"}
            /\ opponent[c] = NoConn
            /\ \A s \in Conns : opponent[s] = c => s = c + 1
            /\ (pc[c] = "waitRead" /\ \A s \in Conns : opponent[s] # c) =>
                  waitingPlayer = c

(* ------------------------------- C19 ----------------------------------- *)

\* C19: no session has one participant on both sides, two sessions have no
\* participant in common, and the slot holds no side of any session.
C19_ExclusiveMembership ==
    /\ \A s \in Conns : opponent[s] # NoConn => opponent[s] # s
    /\ \A s, t \in Conns :
          (s # t /\ opponent[s] # NoConn /\ opponent[t] # NoConn) =>
              {opponent[s], s} \cap {opponent[t], t} = {}
    /\ \A s \in Conns :
          opponent[s] # NoConn => waitingPlayer \notin {opponent[s], s}

\* Two sessions have been formed, of the first two and of the next two
\* arrivals, and all four are still in their handlers.
C19_Witness ==
    /\ opponent[2] = 1
    /\ opponent[4] = 3
    /\ pc[1] = "waitRead"
    /\ pc[3] = "waitRead"
    /\ waitingPlayer = NoConn

(* ------------------------------- C20 ----------------------------------- *)

\* the tasks that are at a write to connection c: the handler of a session
\* at one of its two start writes, a pump at its forward
WritersOf(c) ==
    {<<"start", s, 0>> : s \in {x \in Conns :
                                  \/ pc[x] = "start1" /\ opponent[x] = c
                                  \/ pc[x] = "start2" /\ x = c}}
    \cup {<<"pump", w[1], w[2]>> : w \in {x \in Conns \X Sides :
                                            /\ pump[x[1]][x[2]] = "send"
                                            /\ Peer(x[1], x[2]) = c}}

\* C20: no connection has two tasks at a write to it at once; no pump of a
\* session runs while its handler is at a start write; and every step that
\* writes writes one connection and is either a start write of the handler
\* of its session or the forward of the pump of the other side of its
\* session: never a wait-loop, never the pump of its own side.
C20_SingleWriter ==
    /\ [](\A c \in Conns : Cardinality(WritersOf(c)) <= 1)
    /\ [](\A s \in Conns :
            pc[s] \in {"start1", "start2"} =>
                \A side \in Sides : pump[s][side] = "off")
    /\ [][\A c \in Conns :
            out'[c] # out[c] =>
                /\ \A d \in Conns \ {c} : out'[d] = out[d]
                /\ \E s \in Conns :
                      \/ pc[s] = "start1" /\ pc'[s] = "start2" /\ opponent[s] = c
                      \/ pc[s] = "start2" /\ pc'[s] = "spawn" /\ s = c
                      \/ \E side \in Sides :
                            PumpWrites(s, side) /\ Peer(s, side) = c]_vars

\* Both pumps of a session are at their forward at the same time, each to
\* the connection of the other side, after both start envelopes.
C20_Witness ==
    \E s \in Sessions :
        /\ pump[s][1] = "send"
        /\ pump[s][2] = "send"
        /\ Len(out[s]) = 1
        /\ Len(out[opponent[s]]) = 1

====
